---- MODULE Spec2Model ----
(***************************************************************************)
(* A model of mapkit's colour-ramp mapping engine (ColorRampGenerator.py)  *)
(* and of the KML assembly of RasterConverter.py.                          *)
(*                                                                         *)
(* Numbers.  Raster values, range bounds and timestamps are integers.      *)
(* Python's float arithmetic on slope and intercept is modelled by exact   *)
(* rational arithmetic on pairs <<numerator, denominator>>; on the value   *)
(* ranges of this model the two agree (the float results are exact).       *)
(* The interpolation of generateCustomColorRamp carries the rounding of    *)
(* its double operations.                                                  *)
(* alpha is carried in tenths: alpha = 5 stands for 0.5.                   *)
(***************************************************************************)
EXTENDS Integers, Sequences, FiniteSets, TLC

VARIABLES
    \* ---- the mapper (ColorRampGenerator.py) ----
    colorRamp,        \* the ramp handed to mapColorRampToValues (self._colorRamp)
    minValue,         \* range minimum handed to mapColorRampToValues
    maxValue,         \* range maximum handed to mapColorRampToValues
    alpha,            \* opacity, in tenths
    mappedColorRamp,  \* the MappedColorRamp object, or NotMapped
    lookup,           \* the last getColorForValue call and what it returned
    rendered,         \* the last legend, ramp string or alpha integer asked of
                      \* the MappedColorRamp, and what was returned
    \* ---- generateCustomColorRamp ----
    gen,              \* the last generateCustomColorRamp call and its result
    \* ---- getMinMaxOfRasters ----
    statRows,         \* the rows the statistics query returned
    \* ---- a conversion call of RasterConverter ----
    variant,          \* which getAsKml... method is running
    discreet,         \* legend policy of the call
    noDataValue,      \* the call's no-data sentinel
    rasterId,         \* the raster of a single-raster call
    timeStampedRasters, \* the rasters of an animation call
    storeCalls,       \* the statements executed on the session, in order
    rasterIndex,      \* the animation frame being streamed (1-based; 0 before)
    stream,           \* the rows the store has delivered to the row loop so far
    groupValue,       \* local groupValue
    uniqueValues,     \* local uniqueValues
    multigeometry,    \* local multigeometry: position in document of the
                      \* placemark it belongs to, 0 while unbound
    deltaTime,        \* local deltaTime: <<>> for None, else <<d>>
    document,         \* the children appended to the KML Document so far
    error,            \* the exception that ended the call, "none" otherwise
    \* ---- position of the operation in progress ----
    pc

mapVars == <<colorRamp, minValue, maxValue, alpha, mappedColorRamp, lookup, rendered>>
callVars == <<variant, discreet, noDataValue, rasterId, timeStampedRasters>>
loopVars == <<rasterIndex, stream, groupValue, uniqueValues, multigeometry>>
convVars == <<statRows, variant, discreet, noDataValue, rasterId, timeStampedRasters,
              storeCalls, rasterIndex, stream, groupValue, uniqueValues,
              multigeometry, deltaTime, document, error>>
vars == <<colorRamp, minValue, maxValue, alpha, mappedColorRamp, lookup, rendered, gen,
          statRows, variant, discreet, noDataValue, rasterId, timeStampedRasters,
          storeCalls, rasterIndex, stream, groupValue, uniqueValues,
          multigeometry, deltaTime, document, error, pc>>

-----------------------------------------------------------------------------
(* Bounds of the model *)

\* longest colour ramp handed to the mapper
MaxRampLen == 3
\* largest range bound (minValue / maxValue) tried
MaxRange == 2
\* lookup values run from -(MaxLookup) to MaxLookup
MaxLookup == 3
\* most anchor colours handed to generateCustomColorRamp
MaxAnchors == 3
\* largest interpolatedPoints handed to generateCustomColorRamp
MaxPoints == 3
\* most rows a statistics query returns
MaxStatRows == 3
\* most rasters handed to one call
MaxRasters == 3
\* most rows the store streams to one grid / cluster call
MaxRows == 4
\* most rows the store streams to one animation call, over all its rasters
MaxAnimRows == 2
\* latest timestamp of a raster of an animation
MaxTime == 1
\* most values handed to one discrete legend
MaxLegendValues == 2

-----------------------------------------------------------------------------
(* Python values *)

\* MappedColorRamp.MAX_HEX_DECIMAL
MAX_HEX_DECIMAL == 255
\* alpha is carried in tenths
AlphaScale == 10

Red == <<255, 0, 0>>
Blue == <<0, 0, 255>>
Black == <<0, 0, 0>>
Palette == {Red, Blue}

SeqsUpTo(S, n) == UNION {[1..k -> S] : k \in 0..n}

Abs(x) == IF x < 0 THEN -x ELSE x

RECURSIVE Gcd(_, _)
Gcd(a, b) == IF b = 0 THEN a ELSE Gcd(b, a % b)

(* Exact rationals <<n, d>> with d > 0, in lowest terms. *)
Rat(n, d) ==
    LET s == IF d < 0 THEN -1 ELSE 1
        g == Gcd(Abs(n), Abs(d))
    IN  <<(s * n) \div g, (s * d) \div g>>
RatInt(i) == <<i, 1>>
RatAdd(a, b) == Rat(a[1] * b[2] + b[1] * a[2], a[2] * b[2])
RatSub(a, b) == Rat(a[1] * b[2] - b[1] * a[2], a[2] * b[2])
RatMul(a, b) == Rat(a[1] * b[1], a[2] * b[2])
\* a / b, b # 0
RatDiv(a, b) == Rat(a[1] * b[2], a[2] * b[1])
RatIsZero(a) == a[1] = 0
RatPositive(a) == a[1] > 0
\* math.trunc / int(): rounds toward zero
Trunc(a) == IF a[1] >= 0 THEN a[1] \div a[2] ELSE -((-a[1]) \div a[2])

\* A value that may be None: <<>> is None, <<v>> is v.
NoneValue == <<>>
Some(v) == <<v>>
IsNone(o) == o = <<>>

-----------------------------------------------------------------------------
(* MappedColorRamp *)

NotMapped == [err |-> "NotMapped"]

\* line 48 / 52: one 'value r g b alpha' line of the ramp string
VrgbaLine(valueForIndex, rgb, a) ==
    [nv |-> FALSE, value |-> valueForIndex, rgb |-> rgb,
     alpha |-> Trunc(Rat(a * MAX_HEX_DECIMAL, AlphaScale))]

\* line 55
NoDataLine == [nv |-> TRUE, value |-> RatInt(0), rgb |-> <<0, 0, 0>>, alpha |-> 0]

\* ramp string lines whose values leave the intercept out
VrgbaListNoIntercept(ramp, slope, intercept, min, max, a) ==
    IF min # max
    THEN [index \in 1..Len(ramp) |->
            VrgbaLine(RatDiv(RatInt(Len(ramp) - index), slope), ramp[Len(ramp) - index + 1], a)]
         \o <<NoDataLine>>
    ELSE <<VrgbaLine(RatInt(max), ramp[1], a), NoDataLine>>

\* MappedColorRamp.__init__: the ramp string lines; the division by the slope
\* raises ZeroDivisionError when the slope is 0 and min # max.
VrgbaList(ramp, slope, intercept, min, max, a) ==
    IF min # max
    THEN [index \in 1..Len(ramp) |->
            LET rampIndex == Len(ramp) - (index - 1) - 1
            IN  VrgbaLine(RatDiv(RatSub(RatInt(rampIndex), intercept), slope),
                          ramp[rampIndex + 1], a)]
         \o <<NoDataLine>>
    ELSE <<VrgbaLine(RatInt(max), ramp[1], a), NoDataLine>>

NewMappedColorRamp(ramp, slope, intercept, min, max, a) ==
    IF min # max /\ RatIsZero(slope)
    THEN [err |-> "ZeroDivisionError"]
    ELSE [err |-> "none", colorRamp |-> ramp, slope |-> slope, intercept |-> intercept,
          min |-> min, max |-> max, alpha |-> a,
          vrgbaList |-> VrgbaList(ramp, slope, intercept, min, max, a)]

\* a mapping that anchors a degenerate range at the top of the ramp
mapColorRampToValuesTopAnchored(ramp, min, max, a) ==
    LET maxRampIndex == Len(ramp) - 1
        slope == IF min # max THEN Rat(maxRampIndex, max - min) ELSE RatInt(0)
        intercept == IF min # max
                     THEN RatSub(RatInt(maxRampIndex), RatMul(slope, RatInt(max)))
                     ELSE RatInt(maxRampIndex)
    IN  NewMappedColorRamp(ramp, slope, intercept, min, max, a)

\* ColorRampGenerator.mapColorRampToValues
mapColorRampToValues(ramp, min, max, a) ==
    LET minRampIndex == 0
        maxRampIndex == Len(ramp) - 1
        slope == IF min # max
                 THEN Rat(maxRampIndex - minRampIndex, max - min)
                 ELSE RatInt(0)
        intercept == IF min # max
                     THEN RatSub(RatInt(maxRampIndex), RatMul(slope, RatInt(max)))
                     ELSE RatInt(minRampIndex)
    IN  NewMappedColorRamp(ramp, slope, intercept, min, max, a)

IndexError == <<"IndexError">>

\* MappedColorRamp.getColorForIndex: Python list indexing (negative indices
\* count from the end)
getColorForIndex(m, index) ==
    LET n == Len(m.colorRamp)
    IN  IF index >= 0 /\ index < n THEN m.colorRamp[index + 1]
        ELSE IF index < 0 /\ index >= -n THEN m.colorRamp[n + index + 1]
        ELSE IndexError

\* MappedColorRamp.getIndexForValue
getIndexForValue(m, value) ==
    Trunc(RatAdd(RatMul(m.slope, RatInt(value)), m.intercept))

\* the branch of getColorForValue taken for value
ValueBranch(m, value) ==
    IF value >= m.min /\ value <= m.max THEN "linear"
    ELSE IF value > m.max THEN "above"
    ELSE IF value < m.min THEN "below"
    ELSE "none"

\* a rampIndex that extrapolates the linear formula outside the range
RampIndexExtrapolated(m, value) == getIndexForValue(m, value)

\* a rampIndex that gives the first colour to the values above max
RampIndexFirstAbove(m, value) ==
    IF ValueBranch(m, value) = "linear" THEN getIndexForValue(m, value) ELSE 0

\* the rampIndex getColorForValue computes
RampIndexForValue(m, value) ==
    CASE ValueBranch(m, value) = "linear" -> getIndexForValue(m, value)
      [] ValueBranch(m, value) = "above" -> -1
      [] OTHER -> 0

\* MappedColorRamp.getColorForValue
getColorForValue(m, value) == getColorForIndex(m, RampIndexForValue(m, value))

\* MappedColorRamp.getAlphaAsInteger
getAlphaAsInteger(m) == Trunc(Rat(m.alpha * MAX_HEX_DECIMAL, AlphaScale))

\* MappedColorRamp.getPostGisColorRampString: the lines joined by newlines
getPostGisColorRampString(m) == m.vrgbaList

-----------------------------------------------------------------------------
(* The legends: MappedColorRamp.getColorMapAsContinuousSLD / ...DiscreetSLD *)

\* default of the nodata parameter of both legend methods (lines 115, 163)
DEFAULT_NODATA == -9999

RatLess(a, b) == a[1] * b[2] < b[1] * a[2]
RatAbs(a) == <<Abs(a[1]), a[2]>>

\* lines 125-133: get_label_formatter
get_label_formatter(value) ==
    IF RatLess(RatAbs(value), Rat(1, 100)) /\ ~RatIsZero(value) THEN ".2E"
    ELSE IF RatLess(RatAbs(value), RatInt(10)) THEN ".2f"
    ELSE IF RatLess(RatAbs(value), RatInt(99)) THEN ".1f"
    ELSE ".0f"

\* a ColorMapEntry element; opacity in tenths
ColorMapEntry(color, quantity, label, opacity) ==
    [color |-> color, quantity |-> quantity, label |-> label, opacity |-> opacity]

\* lines 123, 170: the entry of the no-data value
NoDataEntry(nodata) == ColorMapEntry(Black, RatInt(nodata), <<"NoData">>, 0)

\* lines 137-147, 149-158: the entry of one ramp colour
RampEntry(m, valueForIndex, rgb) ==
    ColorMapEntry(rgb, valueForIndex, <<get_label_formatter(valueForIndex), valueForIndex>>,
                  m.alpha)

\* a continuous legend whose quantities count up from min one by one
getColorMapAsContinuousSLDFromMin(m, nodata) ==
    [tag |-> "ColorMap", type |-> "interval",
     entries |->
        <<NoDataEntry(nodata)>> \o
        [k \in 1..Len(m.colorRamp) |->
            RampEntry(m, RatInt(m.min + k - 1), m.colorRamp[k])]]

\* MappedColorRamp.getColorMapAsContinuousSLD(nodata)
getColorMapAsContinuousSLD(m, nodata) ==
    [tag |-> "ColorMap", type |-> "interval",
     entries |->
        <<NoDataEntry(nodata)>> \o
        (IF m.min # m.max /\ RatPositive(m.slope)
         THEN [k \in 1..Len(m.colorRamp) |->
                 RampEntry(m, RatDiv(RatSub(RatInt(k - 1), m.intercept), m.slope),
                           m.colorRamp[k])]
         ELSE <<RampEntry(m, RatInt(m.max), m.colorRamp[1])>>)]

\* a discrete legend that sorts the values it is handed
getColorMapAsDiscreetSLDSorted(m, values, nodata) ==
    LET sorted == SortSeq(values, LAMBDA a, b : a < b)
    IN  [tag |-> "ColorMap", type |-> "values",
         entries |->
            <<NoDataEntry(nodata)>> \o
            [k \in 1..Len(sorted) |->
                ColorMapEntry(getColorForValue(m, sorted[k]), RatInt(sorted[k]),
                              <<"str", sorted[k]>>, m.alpha)]]

\* MappedColorRamp.getColorMapAsDiscreetSLD(uniqueValues, nodata)
getColorMapAsDiscreetSLD(m, values, nodata) ==
    [tag |-> "ColorMap", type |-> "values",
     entries |->
        <<NoDataEntry(nodata)>> \o
        [k \in 1..Len(values) |->
            ColorMapEntry(getColorForValue(m, values[k]), RatInt(values[k]),
                          <<"str", values[k]>>, m.alpha)]]

-----------------------------------------------------------------------------
(* The mapper on its own: a ramp is mapped to a range, then colours are     *)
(* looked up.                                                               *)

Ramps == SeqsUpTo(Palette, MaxRampLen) \ {<<>>}
RangeValues == -1..MaxRange
LookupValues == -MaxLookup..MaxLookup

\* the values handed to the discrete legend
LegendValues == {-2, 1, 3}
\* the alphas handed to mapColorRampToValues, in tenths
MapAlphas == {0, 5, AlphaScale}
NoRender == [method |-> "none", values |-> <<>>, out |-> <<>>]
NoLookup == [done |-> FALSE, value |-> 0, branch |-> "none", index |-> 0, color |-> <<>>]
NoGen == [called |-> FALSE, isList |-> TRUE, colors |-> <<>>, points |-> 0,
          err |-> "none", ramp |-> <<>>]

\* no conversion call is in progress
NoCall ==
    /\ statRows = <<>>
    /\ variant = "none"
    /\ discreet = FALSE
    /\ noDataValue = 0
    /\ rasterId = 1
    /\ timeStampedRasters = <<>>
    /\ storeCalls = <<>>
    /\ rasterIndex = 0
    /\ stream = <<>>
    /\ groupValue = 0
    /\ uniqueValues = <<>>
    /\ multigeometry = 0
    /\ deltaTime = <<>>
    /\ document = <<>>
    /\ error = "none"

MapInit ==
    /\ colorRamp \in Ramps
    /\ minValue \in RangeValues
    /\ maxValue \in RangeValues
    /\ alpha \in MapAlphas
    /\ mappedColorRamp = NotMapped
    /\ lookup = NoLookup
    /\ rendered = NoRender
    /\ gen = NoGen
    /\ NoCall
    /\ pc = "map"

\* a call of ColorRampGenerator.mapColorRampToValues
MapColorRamp ==
    /\ pc = "map"
    /\ mappedColorRamp' = mapColorRampToValues(colorRamp, minValue, maxValue, alpha)
    /\ pc' = IF mappedColorRamp'.err = "none" THEN "mapped" ELSE "failed"
    /\ UNCHANGED <<colorRamp, minValue, maxValue, alpha, lookup, rendered, gen>>
    /\ UNCHANGED convVars

\* a call of MappedColorRamp.getColorForValue (and of getIndexForValue)
LookupColor ==
    /\ pc = "mapped"
    /\ \E value \in LookupValues :
          lookup' = [done |-> TRUE, value |-> value,
                     branch |-> ValueBranch(mappedColorRamp, value),
                     index |-> getIndexForValue(mappedColorRamp, value),
                     color |-> getColorForValue(mappedColorRamp, value)]
    /\ rendered' = NoRender
    /\ UNCHANGED <<colorRamp, minValue, maxValue, alpha, mappedColorRamp, gen, pc>>
    /\ UNCHANGED convVars

\* a call of MappedColorRamp.getColorMapAsContinuousSLD()
GetColorMapAsContinuousSLD ==
    /\ pc = "mapped"
    /\ rendered' = [method |-> "getColorMapAsContinuousSLD", values |-> <<>>,
                    out |-> getColorMapAsContinuousSLD(mappedColorRamp, DEFAULT_NODATA)]
    /\ lookup' = NoLookup
    /\ UNCHANGED <<colorRamp, minValue, maxValue, alpha, mappedColorRamp, gen, pc>>
    /\ UNCHANGED convVars

\* a call of MappedColorRamp.getColorMapAsDiscreetSLD(uniqueValues)
GetColorMapAsDiscreetSLD ==
    /\ pc = "mapped"
    /\ \E values \in SeqsUpTo(LegendValues, MaxLegendValues) :
          rendered' = [method |-> "getColorMapAsDiscreetSLD", values |-> values,
                       out |-> getColorMapAsDiscreetSLD(mappedColorRamp, values,
                                                        DEFAULT_NODATA)]
    /\ lookup' = NoLookup
    /\ UNCHANGED <<colorRamp, minValue, maxValue, alpha, mappedColorRamp, gen, pc>>
    /\ UNCHANGED convVars

\* a call of MappedColorRamp.getPostGisColorRampString(): the lines it joins
GetPostGisColorRampString ==
    /\ pc = "mapped"
    /\ rendered' = [method |-> "getPostGisColorRampString", values |-> <<>>,
                    out |-> getPostGisColorRampString(mappedColorRamp)]
    /\ lookup' = NoLookup
    /\ UNCHANGED <<colorRamp, minValue, maxValue, alpha, mappedColorRamp, gen, pc>>
    /\ UNCHANGED convVars

\* a call of MappedColorRamp.getAlphaAsInteger()
GetAlphaAsInteger ==
    /\ pc = "mapped"
    /\ rendered' = [method |-> "getAlphaAsInteger", values |-> <<>>,
                    out |-> getAlphaAsInteger(mappedColorRamp)]
    /\ lookup' = NoLookup
    /\ UNCHANGED <<colorRamp, minValue, maxValue, alpha, mappedColorRamp, gen, pc>>
    /\ UNCHANGED convVars

MapNext ==
    \/ MapColorRamp
    \/ LookupColor
    \/ GetColorMapAsContinuousSLD
    \/ GetColorMapAsDiscreetSLD
    \/ GetPostGisColorRampString
    \/ GetAlphaAsInteger

MapSpec == MapInit /\ [][MapNext]_vars

-----------------------------------------------------------------------------
(* Claims about the mapper, checked under MapSpec *)

Mapped == mappedColorRamp.err = "none"
First(ramp) == ramp[1]
Last(ramp) == ramp[Len(ramp)]

\* C3 (as stated): every non-empty ramp and every range handed to
\* mapColorRampToValues gives a mapped ramp in which the range minimum gets the
\* first ramp colour and the range maximum gets the last one.
C3_ExtremesGetEndColors ==
    pc # "map" =>
        /\ Mapped
        /\ getColorForValue(mappedColorRamp, minValue) = First(colorRamp)
        /\ getColorForValue(mappedColorRamp, maxValue) = Last(colorRamp)

C5_DegenerateRange ==
    (Mapped /\ minValue = maxValue) =>
        /\ mappedColorRamp.slope = RatInt(0)
        /\ mappedColorRamp.intercept = RatInt(0)
        /\ lookup.done =>
              /\ lookup.index = 0
              /\ lookup.value <= maxValue => lookup.color = First(colorRamp)
              /\ lookup.value > maxValue => lookup.color = Last(colorRamp)

\* C5 witness: in a degenerate range a value above max was looked up; its index
\* is 0 and its colour is the last ramp colour, which is not the first.
C5_Witness ==
    /\ Mapped /\ minValue = maxValue /\ lookup.done
    /\ lookup.value > maxValue
    /\ lookup.index = 0
    /\ lookup.color = Last(colorRamp)
    /\ First(colorRamp) # Last(colorRamp)

\* C5 (as stated): with min = max the slope and the intercept are 0 and every
\* value, inside or outside the range, gets index 0 and the first ramp colour.
C5_DegenerateAllFirst ==
    (Mapped /\ minValue = maxValue) =>
        /\ mappedColorRamp.slope = RatInt(0)
        /\ mappedColorRamp.intercept = RatInt(0)
        /\ lookup.done => lookup.index = 0 /\ lookup.color = First(colorRamp)

-----------------------------------------------------------------------------
(* ColorRampGenerator.generateCustomColorRamp *)

\* an interpolation that rounds to the nearest integer
InterpolateChannelRounded(bottom, top, point, points) ==
    Trunc(RatAdd(RatAdd(RatMul(Rat(top - bottom, points), RatInt(point)), RatInt(bottom)),
                 Rat(1, 2)))

\* Python floats are IEEE doubles: a significand of 1 + 52 bits, every
\* operation rounded to nearest, ties to even
DOUBLE_FRACTION_BITS == 52

\* floor(log2(num / den)), num, den > 0
RECURSIVE FloorLog2(_, _)
FloorLog2(num, den) ==
    IF num >= 2 * den THEN FloorLog2(num, 2 * den) + 1
    ELSE IF num < den THEN FloorLog2(2 * num, den) - 1
    ELSE 0

\* 2^k mod m for 0 <= k < 64 and m < 200, in 32-bit steps
PowMod2(k, m) == (((((2^16) % m)^(k \div 16)) % m) * ((2^(k % 16)) % m)) % m

\* 2^k as a rational, k of either sign
Pow2(k) == IF k >= 0 THEN <<2^k, 1>> ELSE <<1, 2^(-k)>>

IsPowerOfTwo(i) == \E k \in 0..8 : i = 2^k

\* a rational x >= 0 rounded to the nearest integer, ties to even
RoundHalfEven(x) ==
    LET f == x[1] \div x[2]
        rest == x[1] - f * x[2]
    IN  IF 2 * rest > x[2] \/ (2 * rest = x[2] /\ f % 2 = 1) THEN f + 1 ELSE f

\* the exponent of the doubles just below the integer i >= 1
UlpBelow(i) ==
    FloorLog2(i, 1) - DOUBLE_FRACTION_BITS - (IF IsPowerOfTwo(i) THEN 1 ELSE 0)

\* line 252: the error of the double a / float(n), a, n > 0, in units of its
\* last place (negative when the quotient was rounded down)
SlopeError(a, n) ==
    LET k == DOUBLE_FRACTION_BITS - FloorLog2(a, n)
        r == ((a % n) * PowMod2(k, n)) % n
        r2 == ((a % (2 * n)) * PowMod2(k, 2 * n)) % (2 * n)
        odd == ((r2 - r) \div n) % 2 = 1
    IN  IF 2 * r > n \/ (2 * r = n /\ odd) THEN Rat(n - r, n) ELSE Rat(-r, n)

\* line 258: the double slope * point for |slope| = a / float(n) and n
\* dividing a * point, as <<j, g>>: the double is a * point / n + j * 2^g
ProductError(a, n, point) ==
    LET e == FloorLog2(a, n)
        M == (a * point) \div n
        mM == FloorLog2(M, 1)
        w == RatMul(SlopeError(a, n), RatInt(point))
    IN  IF RatIsZero(w) THEN <<0, 0>>
        ELSE IF RatPositive(w)
        THEN <<RoundHalfEven(RatMul(w, Pow2(e - mM))), mM - DOUBLE_FRACTION_BITS>>
        ELSE <<-RoundHalfEven(RatMul(<<-w[1], w[2]>>,
                                     Pow2(e - DOUBLE_FRACTION_BITS - UlpBelow(M)))),
               UlpBelow(M)>>

\* lines 258-260: int(slope * point + bottom) when points divides
\* (top - bottom) * point but not top - bottom: the exact value is the integer
\* K, the double may fall just below it
TruncNearInteger(bottom, top, point, points) ==
    LET a == Abs(top - bottom)
        sgn == IF top > bottom THEN 1 ELSE -1
        K == bottom + sgn * ((a * point) \div points)
        d == ProductError(a, points, point)
        D == sgn * d[1]
    IN  IF D >= 0 \/ K = 0 THEN K
        ELSE IF RoundHalfEven(RatMul(RatInt(-D), Pow2(d[2] - UlpBelow(K)))) >= 1
        THEN K - 1
        ELSE K

\* an interpolation that leaves out the division by the number of points
InterpolateChannelUndivided(bottom, top, point, points) ==
    bottom + (top - bottom) * point

\* lines 252-260: one channel of the colour at an interpolation point,
\* int(slope * point + bottom) with slope = (top - bottom) / float(points)
InterpolateChannel(bottom, top, point, points) ==
    IF top # bottom /\ (Abs(top - bottom) * point) % points = 0
                    /\ Abs(top - bottom) % points # 0
    THEN TruncNearInteger(bottom, top, point, points)
    ELSE Trunc(RatAdd(RatMul(Rat(top - bottom, points), RatInt(point)), RatInt(bottom)))

\* an interpolation that takes every channel from the red one
InterpolateColorFromRed(bottomColor, topColor, point, points) ==
    <<InterpolateChannel(bottomColor[1], topColor[1], point, points),
      InterpolateChannel(bottomColor[1], topColor[1], point, points),
      InterpolateChannel(bottomColor[1], topColor[1], point, points)>>

\* lines 258-261
InterpolateColor(bottomColor, topColor, point, points) ==
    <<InterpolateChannel(bottomColor[1], topColor[1], point, points),
      InterpolateChannel(bottomColor[2], topColor[2], point, points),
      InterpolateChannel(bottomColor[3], topColor[3], point, points)>>

InSeq(x, s) == \E k \in 1..Len(s) : s[k] = x

\* a segment that appends the colour of every point
RECURSIVE InterpolateSegmentNoSkip(_, _, _, _, _)
InterpolateSegmentNoSkip(ramp, bottomColor, topColor, point, points) ==
    IF point >= points THEN ramp
    ELSE InterpolateSegmentNoSkip(
            Append(ramp, InterpolateColor(bottomColor, topColor, point, points)),
            bottomColor, topColor, point + 1, points)

\* lines 257-265: the points point..points-1 of one segment, each appended
\* unless the ramp holds its colour already
RECURSIVE InterpolateSegment(_, _, _, _, _)
InterpolateSegment(ramp, bottomColor, topColor, point, points) ==
    IF point >= points THEN ramp
    ELSE LET color == InterpolateColor(bottomColor, topColor, point, points)
         IN  InterpolateSegment(IF InSeq(color, ramp) THEN ramp ELSE Append(ramp, color),
                                bottomColor, topColor, point + 1, points)

\* lines 245-265: the segments index..numColors-1 (index counts from 1 here)
RECURSIVE InterpolateFrom(_, _, _, _)
InterpolateFrom(ramp, colors, index, points) ==
    IF index >= Len(colors) THEN ramp
    ELSE InterpolateFrom(
            InterpolateSegment(Append(ramp, colors[index]), colors[index],
                               colors[index + 1], 1, points),
            colors, index + 1, points)

\* generateCustomColorRamp(colors, interpolatedPoints): the error raised, or
\* the ramp returned
generateCustomColorRamp(isList, colors, points) ==
    IF ~isList
        THEN [err |-> "RuntimeError", ramp |-> <<>>]            \* line 238: bare raise
    ELSE IF Len(colors) >= 2 /\ points = 0
        THEN [err |-> "ZeroDivisionError", ramp |-> <<>>]       \* line 252
    ELSE IF Len(colors) = 0
        THEN [err |-> "IndexError", ramp |-> <<>>]              \* line 268
    ELSE [err |-> "none",
          ramp |-> Append(InterpolateFrom(<<>>, colors, 1, points), colors[Len(colors)])]

Gray == <<10, 20, 30>>
Maroon == <<122, 0, 0>>
NearBlack == <<2, 0, 0>>
AnchorColors == {Red, Blue, Black, Gray, Maroon, NearBlack}
\* interpolatedPoints: small counts, and 14, the least count at which a double
\* falls below the exact channel value
PointCounts == (-1..MaxPoints) \cup {14}

\* ColorRampEnum
COLOR_RAMP_HUE == 0
COLOR_RAMP_TERRAIN == 1
COLOR_RAMP_AQUA == 2

\* lines 202-218: the three built-in ramps
hue ==
    <<<<255, 0, 255>>, <<231, 0, 255>>, <<208, 0, 255>>, <<185, 0, 255>>,
      <<162, 0, 255>>, <<139, 0, 255>>, <<115, 0, 255>>, <<92, 0, 255>>,
      <<69, 0, 255>>, <<46, 0, 255>>, <<23, 0, 255>>, <<0, 0, 255>>,
      <<0, 23, 255>>, <<0, 46, 255>>, <<0, 69, 255>>, <<0, 92, 255>>,
      <<0, 115, 255>>, <<0, 139, 255>>, <<0, 162, 255>>, <<0, 185, 255>>,
      <<0, 208, 255>>, <<0, 231, 255>>, <<0, 255, 255>>, <<0, 255, 231>>,
      <<0, 255, 208>>, <<0, 255, 185>>, <<0, 255, 162>>, <<0, 255, 139>>,
      <<0, 255, 115>>, <<0, 255, 92>>, <<0, 255, 69>>, <<0, 255, 46>>,
      <<0, 255, 23>>, <<0, 255, 0>>, <<23, 255, 0>>, <<46, 255, 0>>,
      <<69, 255, 0>>, <<92, 255, 0>>, <<115, 255, 0>>, <<139, 255, 0>>,
      <<162, 255, 0>>, <<185, 255, 0>>, <<208, 255, 0>>, <<231, 255, 0>>,
      <<255, 255, 0>>, <<255, 243, 0>>, <<255, 231, 0>>, <<255, 220, 0>>,
      <<255, 208, 0>>, <<255, 197, 0>>, <<255, 185, 0>>, <<255, 174, 0>>,
      <<255, 162, 0>>, <<255, 151, 0>>, <<255, 139, 0>>, <<255, 128, 0>>,
      <<255, 116, 0>>, <<255, 104, 0>>, <<255, 93, 0>>, <<255, 81, 0>>,
      <<255, 69, 0>>, <<255, 58, 0>>, <<255, 46, 0>>, <<255, 34, 0>>,
      <<255, 23, 0>>, <<255, 11, 0>>, <<255, 0, 0>>>>

terrain ==
    <<<<0, 100, 0>>, <<19, 107, 0>>, <<38, 114, 0>>, <<57, 121, 0>>,
      <<76, 129, 0>>, <<95, 136, 0>>, <<114, 143, 0>>, <<133, 150, 0>>,
      <<152, 158, 0>>, <<171, 165, 0>>, <<190, 172, 0>>, <<210, 180, 0>>,
      <<210, 167, 5>>, <<210, 155, 10>>, <<210, 142, 15>>, <<210, 130, 20>>,
      <<210, 117, 25>>, <<210, 105, 30>>, <<188, 94, 25>>, <<166, 83, 21>>,
      <<145, 72, 17>>, <<123, 61, 13>>, <<101, 50, 9>>, <<80, 40, 5>>,
      <<95, 59, 27>>, <<111, 79, 50>>, <<127, 98, 73>>, <<143, 118, 95>>,
      <<159, 137, 118>>, <<175, 157, 141>>, <<191, 176, 164>>,
      <<207, 196, 186>>, <<223, 215, 209>>, <<239, 235, 232>>,
      <<255, 255, 255>>>>

aqua ==
    <<<<150, 255, 255>>, <<136, 240, 250>>, <<122, 226, 245>>,
      <<109, 212, 240>>, <<95, 198, 235>>, <<81, 184, 230>>, <<68, 170, 225>>,
      <<54, 156, 220>>, <<40, 142, 215>>, <<27, 128, 210>>, <<13, 114, 205>>,
      <<0, 100, 200>>, <<0, 94, 195>>, <<0, 89, 191>>, <<0, 83, 187>>,
      <<0, 78, 182>>, <<0, 72, 178>>, <<0, 67, 174>>, <<0, 61, 170>>,
      <<0, 56, 165>>, <<0, 50, 161>>, <<0, 45, 157>>, <<0, 40, 153>>,
      <<0, 36, 143>>, <<0, 32, 134>>, <<0, 29, 125>>, <<0, 25, 115>>,
      <<0, 21, 106>>, <<0, 18, 97>>, <<0, 14, 88>>, <<0, 10, 78>>,
      <<0, 7, 69>>, <<0, 3, 60>>, <<0, 0, 51>>>>

\* ColorRampGenerator.generateDefaultColorRamp: no branch is taken for an
\* identifier that is none of the three, and the method returns None
generateDefaultColorRamp(colorRampEnum) ==
    [err |-> "none",
     ramp |-> IF colorRampEnum = COLOR_RAMP_HUE THEN Some(hue)
              ELSE IF colorRampEnum = COLOR_RAMP_TERRAIN THEN Some(terrain)
              ELSE IF colorRampEnum = COLOR_RAMP_AQUA THEN Some(aqua)
              ELSE NoneValue]

\* the identifiers handed to generateDefaultColorRamp
RampIds == (COLOR_RAMP_HUE - 1)..(COLOR_RAMP_AQUA + 1)

GenInit ==
    /\ colorRamp = <<>>
    /\ minValue = 0
    /\ maxValue = 0
    /\ alpha = AlphaScale
    /\ mappedColorRamp = NotMapped
    /\ lookup = NoLookup
    /\ rendered = NoRender
    /\ gen = NoGen
    /\ NoCall
    /\ pc = "gen"

\* a call of ColorRampGenerator.generateCustomColorRamp
GenerateCustomColorRamp ==
    /\ pc = "gen"
    /\ \E isList \in BOOLEAN, colors \in SeqsUpTo(AnchorColors, MaxAnchors),
          points \in PointCounts :
          /\ ~isList => colors = <<>>
          /\ LET r == generateCustomColorRamp(isList, colors, points)
             IN  gen' = [called |-> TRUE, isList |-> isList, colors |-> colors,
                         points |-> points, err |-> r.err, ramp |-> r.ramp]
    /\ pc' = "generated"
    /\ UNCHANGED <<colorRamp, minValue, maxValue, alpha, mappedColorRamp, lookup, rendered>>
    /\ UNCHANGED convVars

\* a call of ColorRampGenerator.generateDefaultColorRamp
GenerateDefaultColorRamp ==
    /\ pc = "gen"
    /\ \E colorRampEnum \in RampIds :
          rendered' = [method |-> "generateDefaultColorRamp",
                       values |-> <<colorRampEnum>>,
                       out |-> generateDefaultColorRamp(colorRampEnum)]
    /\ pc' = "generated"
    /\ UNCHANGED <<colorRamp, minValue, maxValue, alpha, mappedColorRamp, lookup, gen>>
    /\ UNCHANGED convVars

\* Python truth of a ramp argument: None and the empty list are false
RampGiven(ramp) == ~IsNone(ramp) /\ ramp[1] # <<>>

\* the ramps handed to the constructor and to setColorRamp: None, or a list
RampArguments == {NoneValue, Some(<<>>), Some(<<Red>>), Some(<<Red, Blue>>)}

\* RasterConverter.setDefaultColorRamp(colorRampEnum): the new self._colorRamp
setDefaultColorRamp(colorRampEnum) == generateDefaultColorRamp(colorRampEnum).ramp

\* RasterConverter.setColorRamp line 1014: setDefaultColorRamp is called on the
\* class, so the identifier is taken for self: the assignment to its
\* _colorRamp raises AttributeError (Python 3); Python 2 refuses the unbound
\* call with TypeError
UnboundCallErrors == {"AttributeError", "TypeError"}

\* RasterConverter.__init__(session, colorRamp)
NewRasterConverter ==
    /\ pc = "gen"
    /\ \E ramp \in RampArguments :
          /\ colorRamp' = IF RampGiven(ramp) THEN ramp[1]
                          ELSE setDefaultColorRamp(COLOR_RAMP_HUE)[1]
          /\ rendered' = [method |-> "RasterConverter", values |-> <<ramp>>, out |-> <<>>]
    /\ pc' = "converter"
    /\ UNCHANGED <<minValue, maxValue, alpha, mappedColorRamp, lookup, gen>>
    /\ UNCHANGED convVars

\* RasterConverter.setColorRamp(colorRamp) on an existing converter
SetColorRamp ==
    /\ pc = "converter"
    /\ \E ramp \in RampArguments :
          /\ rendered' = [method |-> "setColorRamp", values |-> <<ramp>>, out |-> <<>>]
          /\ IF RampGiven(ramp)
             THEN /\ colorRamp' = ramp[1]
                  /\ UNCHANGED <<error, pc>>
             ELSE /\ error' \in UnboundCallErrors
                  /\ pc' = "failed"
                  /\ UNCHANGED colorRamp
    /\ UNCHANGED <<minValue, maxValue, alpha, mappedColorRamp, lookup, gen>>
    /\ UNCHANGED <<statRows, callVars, storeCalls, loopVars, deltaTime, document>>

GenNext ==
    \/ GenerateCustomColorRamp
    \/ GenerateDefaultColorRamp
    \/ NewRasterConverter
    \/ SetColorRamp

GenSpec == GenInit /\ [][GenNext]_vars

\* C10 (amended): generateCustomColorRamp([(255,0,0),(0,0,255)], 2) returns
\* [(255,0,0),(127,0,127),(0,0,255)]: the two anchors with the truncated
\* midpoint between them.
C10_RedBlueTwoPoints ==
    (gen.called /\ gen.isList /\ gen.colors = <<Red, Blue>> /\ gen.points = 2) =>
        gen.err = "none" /\ gen.ramp = <<Red, <<127, 0, 127>>, Blue>>

\* C10 witness: the call was made and returned a ramp of three colours.
C10_Witness ==
    /\ gen.called /\ gen.isList /\ gen.colors = <<Red, Blue>> /\ gen.points = 2
    /\ gen.err = "none" /\ Len(gen.ramp) = 3

\* C10 (as stated): generateCustomColorRamp([(255,0,0),(0,0,255)], 2) returns
\* exactly [(255,0,0),(0,0,255)].
C10_RedBlueOnlyAnchors ==
    (gen.called /\ gen.isList /\ gen.colors = <<Red, Blue>> /\ gen.points = 2) =>
        gen.err = "none" /\ gen.ramp = <<Red, Blue>>

\* C11: for every colour c1 and every n >= 1, generateCustomColorRamp([c1, c1], n)
\* returns a ramp in which c1 is the only colour that occurs.
C11_EqualAnchorsOneColor ==
    (gen.called /\ gen.isList /\ Len(gen.colors) = 2 /\ gen.colors[1] = gen.colors[2]
        /\ gen.points >= 1) =>
        /\ gen.err = "none"
        /\ gen.ramp # <<>>
        /\ \A k \in 1..Len(gen.ramp) : gen.ramp[k] = gen.colors[1]

\* C11 witness: two equal anchors with points to interpolate between them gave a
\* ramp of that colour only.
C11_Witness ==
    /\ gen.called /\ gen.isList /\ gen.colors = <<Red, Red>> /\ gen.points = 3
    /\ gen.err = "none"
    /\ gen.ramp = <<Red, Red>>

\* the colour at point q of n between two anchors, each channel
\* trunc(bottom + (top - bottom) * q / n) in exact arithmetic
ExactPointColor(bottom, top, q, n) ==
    [c \in 1..3 |-> (bottom[c] * n + (top[c] - bottom[c]) * q) \div n]

\* the ramp as the claim builds it: per consecutive pair the lower anchor
\* (q = 0), then the points 1..n-1 not yet in the ramp, and the last anchor
RECURSIVE SegmentwiseRamp(_, _, _, _, _)
SegmentwiseRamp(acc, colors, seg, q, n) ==
    IF seg >= Len(colors) THEN Append(acc, colors[Len(colors)])
    ELSE IF q = 0 THEN SegmentwiseRamp(Append(acc, colors[seg]), colors, seg, 1, n)
    ELSE IF q >= n THEN SegmentwiseRamp(acc, colors, seg + 1, 0, n)
    ELSE LET c == ExactPointColor(colors[seg], colors[seg + 1], q, n)
         IN  SegmentwiseRamp(IF \E k \in 1..Len(acc) : acc[k] = c THEN acc
                             ELSE Append(acc, c),
                             colors, seg, q + 1, n)

\* C12 (as stated): for k >= 1 anchors and n >= 1 the ramp returned is the one
\* built pair by pair from the lower anchor, the truncated exact point colours
\* not yet in the ramp, and the last anchor once; it starts with the first
\* anchor, ends with the last, has at most (k-1)*n + 1 entries and is [anchor]
\* for k = 1.
C12_SegmentwiseInterpolation ==
    (gen.called /\ gen.isList /\ Len(gen.colors) >= 1 /\ gen.points >= 1) =>
        /\ gen.err = "none"
        /\ gen.ramp = SegmentwiseRamp(<<>>, gen.colors, 1, 0, gen.points)
        /\ gen.ramp[1] = gen.colors[1]
        /\ gen.ramp[Len(gen.ramp)] = gen.colors[Len(gen.colors)]
        /\ Len(gen.ramp) <= (Len(gen.colors) - 1) * gen.points + 1
        /\ Len(gen.colors) = 1 => gen.ramp = gen.colors

\* C17 (as stated): generateCustomColorRamp fails whenever the anchors are not a
\* list, are an empty list, or interpolatedPoints <= 0.
C17_InvalidInputFails ==
    (gen.called /\ (~gen.isList \/ gen.colors = <<>> \/ gen.points <= 0)) =>
        gen.err # "none"

-----------------------------------------------------------------------------
(* RasterConverter.getMinMaxOfRasters *)

\* lines 1034-1040: one UPDATE ... ST_SetBandNoDataValue per raster id
UpdateCall(id, noData) == [op |-> "update", ids |-> <<id>>, noData |-> noData]
\* lines 1043-1051: the ST_SummaryStats query over all ids
StatsCall(ids) == [op |-> "stats", ids |-> ids, noData |-> 0]

\* the statements with the statistics query issued before the updates
MinMaxStoreCallsStatsFirst(ids, noData) ==
    <<StatsCall(ids)>> \o [k \in 1..Len(ids) |-> UpdateCall(ids[k], noData)]

\* lines 1033-1051: the statements getMinMaxOfRasters executes, in order
MinMaxStoreCalls(ids, noData) ==
    [k \in 1..Len(ids) |-> UpdateCall(ids[k], noData)] \o <<StatsCall(ids)>>

\* lines 1053-1059: the values present in one column of the rows, in row order
RECURSIVE PresentValues(_, _)
PresentValues(rows, column) ==
    IF rows = <<>> THEN <<>>
    ELSE (IF IsNone(Head(rows)[column]) THEN <<>> ELSE <<Head(rows)[column][1]>>)
         \o PresentValues(Tail(rows), column)

\* Python min() / max() of a non-empty list
RECURSIVE ListMin(_)
ListMin(values) ==
    IF Len(values) = 1 THEN values[1]
    ELSE LET rest == ListMin(Tail(values))
         IN  IF values[1] <= rest THEN values[1] ELSE rest
RECURSIVE ListMax(_)
ListMax(values) ==
    IF Len(values) = 1 THEN values[1]
    ELSE LET rest == ListMax(Tail(values))
         IN  IF values[1] >= rest THEN values[1] ELSE rest

\* getMinMaxOfRasters with the defaults applied together: (0, 1) unless both
\* a minimum and a maximum are present
getMinMaxOfRastersJointDefault(rows) ==
    LET minValues == PresentValues(rows, "min")
        maxValues == PresentValues(rows, "max")
    IN  IF minValues = <<>> \/ maxValues = <<>>
        THEN [min |-> 0, max |-> 1]
        ELSE [min |-> ListMin(minValues), max |-> ListMax(maxValues)]

\* lines 1052-1071: (minValue, maxValue) from the rows of the statistics query
getMinMaxOfRasters(rows) ==
    LET minValues == PresentValues(rows, "min")
        maxValues == PresentValues(rows, "max")
    IN  [min |-> IF minValues = <<>> THEN 0 ELSE ListMin(minValues),
         max |-> IF maxValues = <<>> THEN 1 ELSE ListMax(maxValues)]

\* The rows a statistics query may return: min and max may each be absent;
\* when both are present, min <= max.
StatValues == {1, 2}
StatRowSet ==
    {r \in [min : {NoneValue} \cup {Some(v) : v \in StatValues},
            max : {NoneValue} \cup {Some(v) : v \in StatValues}] :
        (~IsNone(r.min) /\ ~IsNone(r.max)) => r.min[1] <= r.max[1]}
RasterIds == {1, 2}
NoDataValues == {0, -1}

RangeInit ==
    /\ colorRamp = <<>>
    /\ minValue = 0
    /\ maxValue = 0
    /\ alpha = AlphaScale
    /\ mappedColorRamp = NotMapped
    /\ lookup = NoLookup
    /\ rendered = NoRender
    /\ gen = NoGen
    /\ NoCall
    /\ pc = "range"

\* a call of RasterConverter.getMinMaxOfRasters
GetMinMaxOfRasters ==
    /\ pc = "range"
    /\ \E ids \in SeqsUpTo(RasterIds, MaxRasters), noData \in NoDataValues :
          /\ storeCalls' = storeCalls \o MinMaxStoreCalls(ids, noData)
          /\ noDataValue' = noData
          /\ \E rows \in SeqsUpTo(StatRowSet, MaxStatRows) :
                /\ Len(rows) <= Len(ids)
                /\ statRows' = rows
                /\ minValue' = getMinMaxOfRasters(rows).min
                /\ maxValue' = getMinMaxOfRasters(rows).max
    /\ pc' = "ranged"
    /\ UNCHANGED <<colorRamp, alpha, mappedColorRamp, lookup, rendered, gen, variant, discreet,
                   rasterId, timeStampedRasters, rasterIndex, stream, groupValue,
                   uniqueValues, multigeometry, deltaTime, document, error>>

RangeNext == GetMinMaxOfRasters

RangeSpec == RangeInit /\ [][RangeNext]_vars

PresentMins == {statRows[k].min[1] : k \in {k \in 1..Len(statRows) : ~IsNone(statRows[k].min)}}
PresentMaxs == {statRows[k].max[1] : k \in {k \in 1..Len(statRows) : ~IsNone(statRows[k].max)}}

\* C6: getMinMaxOfRasters returns the least present per-raster minimum (0 when
\* none is present) and the greatest present per-raster maximum (1 when none
\* is present), each default applying on its own; no statistics give (0, 1).
C6_MinMaxOfRasters ==
    pc = "ranged" =>
        /\ PresentMins = {} => minValue = 0
        /\ PresentMins # {} =>
              minValue \in PresentMins /\ \A v \in PresentMins : minValue <= v
        /\ PresentMaxs = {} => maxValue = 1
        /\ PresentMaxs # {} =>
              maxValue \in PresentMaxs /\ \A v \in PresentMaxs : maxValue >= v
        /\ statRows = <<>> => minValue = 0 /\ maxValue = 1

\* C6 witness: two rows with a minimum each and no maximum at all: the result
\* is the lesser minimum with the default maximum.
C6_Witness ==
    /\ pc = "ranged"
    /\ Len(statRows) = 2
    /\ PresentMins = {1, 2} /\ PresentMaxs = {}
    /\ minValue = 1 /\ maxValue = 1

-----------------------------------------------------------------------------
(* RasterConverter: the KML conversions.  Table and field names, the        *)
(* document name, drawOrder, cellSize, resampleMethod and the bounding box  *)
(* are passed through to the store or the document and are left out.       *)

\* RasterConverter.LINE_COLOR, LINE_WIDTH
LINE_COLOR == "FF000000"
LINE_WIDTH == 1
\* lines 91, 223, 560: the initial groupValue
INITIAL_GROUP_VALUE == -9999999

Variants == {"grid", "clusters", "png", "gridAnim", "pngAnim"}
IsAnimation(v) == v \in {"gridAnim", "pngAnim"}

\* Python truth of a value that is None or a number (if row.val:, if value:,
\* if deltaTime:)
Truthy(o) == ~IsNone(o) /\ o[1] # 0

\* str() of a number
Str(v) == <<"str", v>>

\* lines 57, 189, 474, 703
AlphaValid(a) == a >= 0 /\ a <= AlphaScale

\* lines 479-486, 710-717: the keys every timestamped raster must have
HasKeys(rasters) ==
    \A k \in 1..Len(rasters) : ~IsNone(rasters[k].rasterId) /\ ~IsNone(rasters[k].dateTime)

\* the validation at the entry of each conversion: the error raised, or "none"
ValidateCall(v, a, rasters) ==
    CASE v \in {"grid", "clusters"} ->                    \* lines 56-58, 189-190
            IF AlphaValid(a) THEN "none" ELSE "ValueError"
      [] v = "png" -> "none"                              \* lines 304-314: no check
      [] OTHER ->                                         \* lines 473-486, 697-717
            IF ~AlphaValid(a) THEN "ValueError"
            ELSE IF ~HasKeys(rasters) THEN "ValueError"
            ELSE "none"

\* the rasterIds handed to getMinMaxOfRasters (lines 63, 195, 317, 486, 717)
RequestedIds(v, id, rasters) ==
    IF IsAnimation(v) THEN [k \in 1..Len(rasters) |-> rasters[k].rasterId[1]]
    ELSE <<id>>

\* the statements of the conversions
CellsCall(v, id) ==
    [op |-> IF v = "clusters" THEN "clusters" ELSE "cells", ids |-> <<id>>, noData |-> 0]
PngCall(ids) == [op |-> "png", ids |-> ids, noData |-> 0]
MetadataCall(id) == [op |-> "metadata", ids |-> <<id>>, noData |-> 0]
ValueCountCall(id) == [op |-> "valuecount", ids |-> <<id>>, noData |-> 0]

\* lines 97-100: float(row.val), or None
RowValue(row) == IF Truthy(row.val) THEN row.val ELSE NoneValue

\* a colour string with the channels in the order alpha, red, green, blue
HexARGB(m, value) ==
    LET integerRGB == getColorForValue(m, value)
    IN  <<getAlphaAsInteger(m), integerRGB[1], integerRGB[2], integerRGB[3]>>

\* lines 139-142: the KML colour, alpha first, then blue, green, red
HexABGR(m, value) ==
    LET integerRGB == getColorForValue(m, value)
    IN  <<getAlphaAsInteger(m), integerRGB[3], integerRGB[2], integerRGB[1]>>

\* lines 114-164 (grid), 243-285 (clusters), 581-646 (grid animation): the
\* placemark opened for a value; span is <<>> or <<begin, end>>
Placemark(v, m, value, row, span) ==
    [tag |-> "Placemark",
     name |-> Str(value),
     lineColor |-> LINE_COLOR,
     lineWidth |-> Str(LINE_WIDTH),
     polyColor |-> HexABGR(m, value),
     timeSpan |-> span,
     polygons |-> <<>>,
     data |-> <<<<"value", Str(value)>>>>
              \o (IF v = "clusters" THEN <<>>
                  ELSE <<<<"i", Str(row.x)>>, <<"j", Str(row.y)>>>>)
              \o (IF span = <<>> THEN <<>> ELSE <<<<"t", span[2]>>>>)]

\* lines 109-110: collect unique values
CollectUnique(uniq, value) == IF InSeq(value, uniq) THEN uniq ELSE Append(uniq, value)

\* a row loop that appends the polygon of every row
AppendsPolygonAlways(value) == TRUE

\* lines 107, 168-170: whether the row's polygon is appended to multigeometry
AppendsPolygon(value) == Truthy(value)

\* lines 95-170, 227-292, 563-652: one pass of the row loop.  pos names the
\* row's polygon.
RowStep(v, m, doc, uniq, grp, mg, row, pos, span) ==
    LET value == RowValue(row)
        opens == Truthy(value) /\ value[1] # grp
        uniq1 == IF Truthy(value) THEN CollectUnique(uniq, value[1]) ELSE uniq
        doc1 == IF opens THEN Append(doc, Placemark(v, m, value[1], row, span)) ELSE doc
        mg1 == IF opens THEN Len(doc1) ELSE mg
        grp1 == IF opens THEN value[1] ELSE grp
    IN  IF ~AppendsPolygon(value)
        THEN [document |-> doc1, uniqueValues |-> uniq1, groupValue |-> grp1,
              multigeometry |-> mg1, error |-> "none"]
        ELSE IF mg1 = 0
        THEN [document |-> doc1, uniqueValues |-> uniq1, groupValue |-> grp1,
              multigeometry |-> mg1, error |-> "UnboundLocalError"]
        ELSE [document |-> [doc1 EXCEPT ![mg1].polygons = Append(@, pos)],
              uniqueValues |-> uniq1, groupValue |-> grp1,
              multigeometry |-> mg1, error |-> "none"]

\* lines 543-545, 810-812, 614-622, 820-828: the TimeSpan of frame k
TimeSpan(delta, rasters, k) ==
    IF Truthy(delta)
    THEN <<rasters[k].dateTime[1] - delta[1], rasters[k].dateTime[1]>>
    ELSE <<>>

\* lines 376-420, 815-868: a GroundOverlay; href names the image
GroundOverlay(span, href) ==
    [tag |-> "GroundOverlay", name |-> "Overlay", timeSpan |-> span, href |-> href]

\* lines 527-533, 800-806
HideChildrenStyle == <<[tag |-> "Style", id |-> "check-hide-children"],
                       [tag |-> "styleUrl", text |-> "#check-hide-children"]>>

\* lines 172-178, 294-300, 654-660: the legend of the collected values
Legend(m, isDiscreet, values) ==
    IF ~isDiscreet THEN getColorMapAsContinuousSLD(m, DEFAULT_NODATA)
    ELSE getColorMapAsDiscreetSLD(m, SortSeq(values, LAMBDA a, b : a < b), DEFAULT_NODATA)

-----------------------------------------------------------------------------
(* A conversion call, step by step *)

ConvRamps == {<<Red>>, <<Red, Blue>>}
AlphaValues == {-5, 5, 15}
Times == 0..MaxTime
CellValues == {0, 1, 2, INITIAL_GROUP_VALUE}
RowValues == {NoneValue} \cup {Some(v) : v \in CellValues}
\* the values an ST_ValueCount query may list, in its order
ValueCountLists == {<<>>, <<1>>, <<1, 2>>}

\* the statistics a conversion is answered with: none, a single value, a
\* proper range
ConvStatRows ==
    {<<>>, <<[min |-> NoneValue, max |-> NoneValue]>>,
     <<[min |-> Some(1), max |-> Some(1)]>>, <<[min |-> Some(1), max |-> Some(2)]>>}

\* a timestamped raster: a dictionary that may lack either key
RasterRefs ==
    [rasterId : {Some(id) : id \in 1..MaxRasters}, dateTime : {Some(t) : t \in Times}]
    \cup {[rasterId |-> NoneValue, dateTime |-> Some(0)]}
    \cup [rasterId : {Some(id) : id \in 1..MaxRasters}, dateTime : {NoneValue}]

\* the lists of an animation call: the k-th raster, when it has an id, has id k,
\* and the rasters that have a timestamp come in chronological order
RasterLists ==
    {l \in SeqsUpTo(RasterRefs, MaxRasters) :
        /\ \A k \in 1..Len(l) : l[k].rasterId \in {NoneValue, Some(k)}
        /\ \A j, k \in 1..Len(l) :
              (j < k /\ ~IsNone(l[j].dateTime) /\ ~IsNone(l[k].dateTime))
                  => l[j].dateTime[1] <= l[k].dateTime[1]}

Init ==
    /\ variant \in Variants
    /\ alpha \in AlphaValues
    /\ discreet \in BOOLEAN
    /\ IF IsAnimation(variant)
       THEN /\ timeStampedRasters \in RasterLists
            /\ rasterId = 1
            /\ noDataValue = 0
            /\ colorRamp = <<Red, Blue>>
       ELSE /\ timeStampedRasters = <<>>
            /\ rasterId \in RasterIds
            /\ noDataValue \in NoDataValues
            /\ colorRamp \in ConvRamps
    /\ minValue = 0
    /\ maxValue = 0
    /\ mappedColorRamp = NotMapped
    /\ lookup = NoLookup
    /\ rendered = NoRender
    /\ gen = NoGen
    /\ statRows = <<>>
    /\ storeCalls = <<>>
    /\ rasterIndex = 0
    /\ stream = <<>>
    /\ groupValue = 0
    /\ uniqueValues = <<>>
    /\ multigeometry = 0
    /\ deltaTime = NoneValue
    /\ document = <<>>
    /\ error = "none"
    /\ pc = "entry"

idleVars == <<lookup, rendered, gen, statRows>>

\* the validation at the entry of the method
Validate ==
    /\ pc = "entry"
    /\ error' = ValidateCall(variant, alpha, timeStampedRasters)
    /\ pc' = IF error' = "none" THEN "range" ELSE "failed"
    /\ UNCHANGED <<colorRamp, minValue, maxValue, alpha, mappedColorRamp, storeCalls,
                   deltaTime, document>>
    /\ UNCHANGED <<callVars, loopVars, idleVars>>

\* lines 60-71 (and 192-203, 314-325, 488-500, 719-730): getMinMaxOfRasters,
\* then mapColorRampToValues
ResolveColorRamp ==
    /\ pc = "range"
    /\ storeCalls' = storeCalls \o
            MinMaxStoreCalls(RequestedIds(variant, rasterId, timeStampedRasters), noDataValue)
    /\ \E rows \in ConvStatRows :
          /\ minValue' = getMinMaxOfRasters(rows).min
          /\ maxValue' = getMinMaxOfRasters(rows).max
    /\ mappedColorRamp' = mapColorRampToValues(colorRamp, minValue', maxValue', alpha)
    /\ error' = IF mappedColorRamp'.err = "none" THEN "none" ELSE mappedColorRamp'.err
    /\ pc' = CASE error' # "none" -> "failed"
               [] variant \in {"grid", "clusters"} -> "query"
               [] variant = "gridAnim" -> "preamble"
               [] OTHER -> "png"
    /\ UNCHANGED <<colorRamp, alpha, deltaTime, document>>
    /\ UNCHANGED <<callVars, loopVars, idleVars>>

\* lines 73-92, 205-224: the cell / cluster query of a single raster;
\* lines 539-560: the cell query of the next raster of a grid animation
ExecuteCellQuery ==
    /\ pc = "query"
    /\ rasterIndex' = IF variant = "gridAnim" THEN rasterIndex + 1 ELSE 0
    /\ storeCalls' = Append(storeCalls,
            CellsCall(variant, IF variant = "gridAnim"
                               THEN timeStampedRasters[rasterIndex'].rasterId[1]
                               ELSE rasterId))
    /\ groupValue' = INITIAL_GROUP_VALUE
    /\ uniqueValues' = IF variant = "gridAnim" THEN uniqueValues ELSE <<>>
    /\ pc' = "rows"
    /\ UNCHANGED <<colorRamp, minValue, maxValue, alpha, mappedColorRamp, stream,
                   multigeometry, deltaTime, document, error>>
    /\ UNCHANGED <<callVars, idleVars>>

RowBudget == IF variant = "gridAnim" THEN MaxAnimRows ELSE MaxRows

\* one pass of the row loop: the store delivers a row
ConsumeRow ==
    /\ pc = "rows"
    /\ Len(stream) < RowBudget
    /\ \E val \in RowValues :
          LET row == [raster |-> rasterIndex, val |-> val, x |-> Len(stream) + 1, y |-> 1]
              span == IF variant = "gridAnim"
                      THEN TimeSpan(deltaTime, timeStampedRasters, rasterIndex)
                      ELSE <<>>
              r == RowStep(variant, mappedColorRamp, document, uniqueValues, groupValue,
                           multigeometry, row, Len(stream) + 1, span)
          IN  /\ stream' = Append(stream, row)
              /\ document' = r.document
              /\ uniqueValues' = r.uniqueValues
              /\ groupValue' = r.groupValue
              /\ multigeometry' = r.multigeometry
              /\ error' = r.error
              /\ pc' = IF r.error = "none" THEN "rows" ELSE "failed"
    /\ UNCHANGED <<colorRamp, minValue, maxValue, alpha, mappedColorRamp, storeCalls,
                   rasterIndex, deltaTime>>
    /\ UNCHANGED <<callVars, idleVars>>

\* the rows of the raster are exhausted
EndOfRows ==
    /\ pc = "rows"
    /\ pc' = IF variant = "gridAnim" /\ rasterIndex < Len(timeStampedRasters)
             THEN "query" ELSE "legend"
    /\ UNCHANGED <<colorRamp, minValue, maxValue, alpha, mappedColorRamp, storeCalls,
                   deltaTime, document, error>>
    /\ UNCHANGED <<callVars, loopVars, idleVars>>

\* lines 327-420 (getAsKmlPng) and 732-775 (getAsKmlPngAnimation):
\* getRastersAsPngs and the metadata query; found tells whether the store
\* has rows for the raster
RenderPng ==
    /\ pc = "png"
    /\ LET ids == RequestedIds(variant, rasterId, timeStampedRasters)
       IN  IF ids = <<>>
           THEN /\ storeCalls' = Append(storeCalls, PngCall(ids))
                /\ error' = "IndexError"                       \* line 759
                /\ pc' = "failed"
                /\ UNCHANGED document
           ELSE /\ storeCalls' = storeCalls \o <<PngCall(ids), MetadataCall(ids[1])>>
                /\ \E found \in BOOLEAN :
                      IF ~found
                      THEN /\ error' = "UnboundLocalError"      \* lines 364, 772
                           /\ pc' = "failed"
                           /\ UNCHANGED document
                      ELSE /\ error' = "none"
                           /\ document' = IF variant = "png"
                                          THEN <<GroundOverlay(<<>>, <<"raster.png">>)>>
                                          ELSE document
                           /\ pc' = IF variant = "png" THEN "legend" ELSE "preamble"
    /\ UNCHANGED <<colorRamp, minValue, maxValue, alpha, mappedColorRamp, deltaTime>>
    /\ UNCHANGED <<callVars, loopVars, idleVars>>

\* lines 504-536 and 777-806: deltaTime, the document with its first legend
\* and the style that hides the children
AnimationPreamble ==
    /\ pc = "preamble"
    /\ IF timeStampedRasters = <<>>
       THEN /\ error' = "IndexError"                           \* line 508
            /\ pc' = "failed"
            /\ UNCHANGED <<deltaTime, document>>
       ELSE /\ deltaTime' = IF Len(timeStampedRasters) >= 2
                            THEN Some(timeStampedRasters[2].dateTime[1]
                                      - timeStampedRasters[1].dateTime[1])
                            ELSE NoneValue
            /\ document' = <<Legend(mappedColorRamp, discreet, <<>>)>> \o HideChildrenStyle
            /\ error' = "none"
            /\ pc' = IF variant = "gridAnim" THEN "query" ELSE "overlay"
    /\ UNCHANGED <<colorRamp, minValue, maxValue, alpha, mappedColorRamp, storeCalls>>
    /\ UNCHANGED <<callVars, loopVars, idleVars>>

\* lines 808-868: the GroundOverlay of the next raster
AddOverlay ==
    /\ pc = "overlay"
    /\ rasterIndex < Len(timeStampedRasters)
    /\ rasterIndex' = rasterIndex + 1
    /\ document' = Append(document,
            GroundOverlay(TimeSpan(deltaTime, timeStampedRasters, rasterIndex'),
                          <<"raster", rasterIndex, ".png">>))
    /\ UNCHANGED <<colorRamp, minValue, maxValue, alpha, mappedColorRamp, storeCalls,
                   stream, groupValue, uniqueValues, multigeometry, deltaTime, error, pc>>
    /\ UNCHANGED <<callVars, idleVars>>

\* line 870: getAsKmlPngAnimation returns
ReturnOverlays ==
    /\ pc = "overlay"
    /\ rasterIndex = Len(timeStampedRasters)
    /\ pc' = "done"
    /\ UNCHANGED <<colorRamp, minValue, maxValue, alpha, mappedColorRamp, storeCalls,
                   deltaTime, document, error>>
    /\ UNCHANGED <<callVars, loopVars, idleVars>>

\* lines 172-180, 294-302, 654-662: the legend is appended and the document
\* returned; lines 422-445: the same in getAsKmlPng, whose discrete legend
\* lists the values of an ST_ValueCount query
EmbedLegend ==
    /\ pc = "legend"
    /\ IF variant = "png" /\ discreet
       THEN /\ storeCalls' = Append(storeCalls, ValueCountCall(rasterId))
            /\ \E values \in ValueCountLists :
                  document' = Append(document,
                      getColorMapAsDiscreetSLD(mappedColorRamp, values, DEFAULT_NODATA))
       ELSE /\ document' = Append(document, Legend(mappedColorRamp, discreet, uniqueValues))
            /\ UNCHANGED storeCalls
    /\ uniqueValues' = IF discreet THEN SortSeq(uniqueValues, LAMBDA a, b : a < b)
                       ELSE uniqueValues
    /\ pc' = "done"
    /\ UNCHANGED <<colorRamp, minValue, maxValue, alpha, mappedColorRamp, rasterIndex,
                   stream, groupValue, multigeometry, deltaTime, error>>
    /\ UNCHANGED <<callVars, idleVars>>

Next ==
    \/ Validate
    \/ ResolveColorRamp
    \/ ExecuteCellQuery
    \/ ConsumeRow
    \/ EndOfRows
    \/ RenderPng
    \/ AnimationPreamble
    \/ AddOverlay
    \/ ReturnOverlays
    \/ EmbedLegend

Spec == Init /\ [][Next]_vars

-----------------------------------------------------------------------------
(* Claims about the conversions, checked under Spec *)

Tagged(doc, tag) == {k \in DOMAIN doc : doc[k].tag = tag}

\* the values of the records of a stream that have one
PresentCells(rows) ==
    LET present == SelectSeq(rows, LAMBDA row : ~IsNone(row.val))
    IN  [k \in 1..Len(present) |-> present[k].val[1]]

\* the number of maximal runs of adjacent equal values
Runs(values) ==
    Cardinality({k \in 1..Len(values) : k = 1 \/ values[k] # values[k - 1]})

\* C1 (as stated): when getAsKmlGrid or getAsKmlClusters returns, the document
\* holds as many placemarks as the stream, with its value-absent records
\* removed, has maximal runs of adjacent equal values.
C1_PlacemarksAreRuns ==
    (variant \in {"grid", "clusters"} /\ pc = "done") =>
        Cardinality(Tagged(document, "Placemark")) = Runs(PresentCells(stream))

\* C2: a pass of the row loop over a record whose value is absent opens no
\* placemark, appends no polygon to the open one and adds nothing to
\* uniqueValues: the document, uniqueValues, groupValue and the open
\* multigeometry are what they were.
C2_AbsentValueIgnored ==
    [][(pc = "rows" /\ Len(stream') = Len(stream) + 1
            /\ IsNone(stream'[Len(stream')].val))
        => UNCHANGED <<document, uniqueValues, groupValue, multigeometry>>]_vars

\* C2 witness: value-absent records came first and between two equal values;
\* the document holds one placemark with the polygons of the two other rows.
C2_Witness ==
    /\ variant = "grid" /\ pc = "rows" /\ Len(stream) = 4
    /\ IsNone(stream[1].val) /\ stream[2].val = Some(1)
    /\ IsNone(stream[3].val) /\ stream[4].val = Some(1)
    /\ Len(document) = 1
    /\ document[1].tag = "Placemark"
    /\ document[1].polygons = <<2, 4>>
    /\ uniqueValues = <<1>>

\* C7 (as stated): in every variant a call with alpha outside [0, 1] fails at
\* entry with no statement issued to the store and no document built.
C7_InvalidAlphaRejected ==
    (~AlphaValid(alpha) /\ pc # "entry") =>
        pc = "failed" /\ error = "ValueError" /\ storeCalls = <<>> /\ document = <<>>

\* C8 (as stated): the document a conversion returns holds exactly one ColorMap
\* element, and it comes after every placemark and overlay.
C8_OneLegendLast ==
    pc = "done" => Tagged(document, "ColorMap") = {Len(document)}

\* the frame a placemark or an overlay was emitted for
FrameOf(element) ==
    IF element.tag = "GroundOverlay" THEN element.href[2] + 1
    ELSE stream[element.data[2][2][2]].raster

\* C9 (as stated): in a returned animation of at least two rasters every
\* placemark and overlay of frame k carries the window [t_k - D, t_k], D being
\* the difference of the first two timestamps.
C9_FrameWindows ==
    (IsAnimation(variant) /\ pc = "done" /\ Len(timeStampedRasters) >= 2) =>
        LET D == timeStampedRasters[2].dateTime[1] - timeStampedRasters[1].dateTime[1]
        IN  \A k \in Tagged(document, "Placemark") \cup Tagged(document, "GroundOverlay") :
               LET t == timeStampedRasters[FrameOf(document[k])].dateTime[1]
               IN  document[k].timeSpan = <<t - D, t>>

-----------------------------------------------------------------------------
(* Claims about the legends, the ramp string and the alpha of a mapped ramp, *)
(* checked under MapSpec                                                     *)

RatEq(a, b) == a[1] * b[2] = b[1] * a[2]

\* the legend entries that stand for the no-data value
NoDataEntries(entries) == {k \in 1..Len(entries) : entries[k].label = <<"NoData">>}

\* the continuous legend holds the no-data entry and, for every ramp index i,
\* an entry of the colour ramp[i] whose quantity the mapping sends back to i
OneEntryPerIndex(m, entries) ==
    /\ Len(entries) = Len(m.colorRamp) + 1
    /\ NoDataEntries(entries) = {1}
    /\ entries[1].opacity = 0
    /\ \A i \in 0..(Len(m.colorRamp) - 1) :
          /\ entries[i + 2].color = m.colorRamp[i + 1]
          /\ RatEq(RatAdd(RatMul(m.slope, entries[i + 2].quantity), m.intercept),
                   RatInt(i))

C14_DiscreteLegend ==
    rendered.method = "getColorMapAsDiscreetSLD" =>
        LET entries == rendered.out.entries
            values == rendered.values
        IN  /\ Len(entries) = Len(values) + 1
            /\ NoDataEntries(entries) = {1}
            /\ \A k \in 1..Len(values) :
                  /\ entries[k + 1].quantity = RatInt(values[k])
                  /\ entries[k + 1].color = getColorForIndex(mappedColorRamp,
                        CASE values[k] > maxValue -> -1
                          [] values[k] < minValue -> 0
                          [] OTHER -> getIndexForValue(mappedColorRamp, values[k]))

C14_Witness ==
    /\ rendered.method = "getColorMapAsDiscreetSLD"
    /\ rendered.values = <<3, 1>>
    /\ minValue < maxValue
    /\ Len(colorRamp) > 1
    /\ rendered.out.entries[2].color # rendered.out.entries[3].color

\* the (value, colour) pairs of the lines of a ramp string
LinePairs(lines) ==
    {<<lines[k].value, lines[k].rgb>> : k \in {j \in 1..Len(lines) : ~lines[j].nv}}

\* the (quantity, colour) pairs of the entries of a legend but the no-data one
EntryPairs(entries) ==
    {<<entries[k].quantity, entries[k].color>> :
        k \in (1..Len(entries)) \ NoDataEntries(entries)}

\* the ramp string and the continuous legend of m show the same pairs, and the
\* ramp string has one 'nv 0 0 0 0' line
SamePairs(m, lines) ==
    /\ LinePairs(lines) = EntryPairs(getColorMapAsContinuousSLD(m, DEFAULT_NODATA).entries)
    /\ Cardinality({k \in 1..Len(lines) : lines[k] = NoDataLine}) = 1
    /\ Cardinality({k \in 1..Len(lines) : lines[k].nv}) = 1

C16_AlphaRounded ==
    rendered.method = "getAlphaAsInteger" =>
        /\ rendered.out = RoundHalfEven(Rat(alpha * MAX_HEX_DECIMAL, AlphaScale))
        /\ rendered.out \in 0..MAX_HEX_DECIMAL

\* the position in the ramp of the colour getColorForValue picks for value
RampPosition(m, value) ==
    LET rampIndex == RampIndexForValue(m, value)
    IN  IF rampIndex < 0 THEN Len(m.colorRamp) + rampIndex ELSE rampIndex

\* C19: for min < max the ramp index getColorForValue picks is defined for
\* every value, lies in 0..len(ramp)-1, is trunc(slope * v + intercept) for v
\* in [min, max], and never decreases as v grows, the values below min and
\* above max included.
C19_IndexInBoundsAndMonotone ==
    (lookup.done /\ minValue < maxValue) =>
        LET m == mappedColorRamp
            position == RampPosition(m, lookup.value)
        IN  /\ position \in 0..(Len(m.colorRamp) - 1)
            /\ lookup.color = m.colorRamp[position + 1]
            /\ (lookup.value >= minValue /\ lookup.value <= maxValue) =>
                  position = Trunc(RatAdd(RatMul(m.slope, RatInt(lookup.value)),
                                          m.intercept))
            /\ \A smaller \in LookupValues :
                  smaller <= lookup.value =>
                     RampPosition(m, smaller) <= position

C19_Witness ==
    /\ lookup.done
    /\ minValue < maxValue
    /\ lookup.value > maxValue
    /\ Len(colorRamp) = MaxRampLen
    /\ lookup.color = colorRamp[MaxRampLen]

-----------------------------------------------------------------------------
(* Claim about the built-in ramps, checked under GenSpec *)

\* C18 (as stated): generateDefaultColorRamp returns the hue, terrain or aqua
\* ramp for the three ColorRampEnum identifiers and fails with an error for
\* every other identifier; it never returns a missing or an empty ramp.
C18_UnknownRampFails ==
    rendered.method = "generateDefaultColorRamp" =>
        LET colorRampEnum == rendered.values[1]
            result == rendered.out
        IN  /\ colorRampEnum = COLOR_RAMP_HUE => result.ramp = Some(hue)
            /\ colorRampEnum = COLOR_RAMP_TERRAIN => result.ramp = Some(terrain)
            /\ colorRampEnum = COLOR_RAMP_AQUA => result.ramp = Some(aqua)
            /\ colorRampEnum \notin {COLOR_RAMP_HUE, COLOR_RAMP_TERRAIN, COLOR_RAMP_AQUA} =>
                  result.err # "none"
            /\ result.err = "none" => (~IsNone(result.ramp) /\ result.ramp[1] # <<>>)

-----------------------------------------------------------------------------
(* Claim about the style of the placemarks, checked under Spec *)

\* the records after position opening that continue its run: they belong to
\* the same raster and, up to them, every record that has a value has the
\* value of the opening record
RunAfter(opening) ==
    {p \in (opening + 1)..Len(stream) :
        /\ stream[p].raster = stream[opening].raster
        /\ ~IsNone(stream[p].val)
        /\ \A q \in opening..p :
              IsNone(stream[q].val) \/ stream[q].val = stream[opening].val}

\* the placemark is styled from the value of the record that opened it, and
\* the later records of the run have their polygons in it, in stream order
StyledFromOpeningRecord(placemark) ==
    LET opening == stream[placemark.polygons[1]]
        value == opening.val[1]
        integerRGB == getColorForValue(mappedColorRamp, value)
    IN  /\ ~IsNone(opening.val)
        /\ placemark.name = Str(value)
        /\ placemark.data[1] = <<"value", Str(value)>>
        /\ placemark.lineColor = LINE_COLOR
        /\ placemark.lineWidth = Str(LINE_WIDTH)
        /\ placemark.polyColor = <<getAlphaAsInteger(mappedColorRamp),
                                   integerRGB[3], integerRGB[2], integerRGB[1]>>
        /\ \A p \in RunAfter(placemark.polygons[1]) : InSeq(p, placemark.polygons)
        /\ \A k \in 2..Len(placemark.polygons) :
              placemark.polygons[k - 1] < placemark.polygons[k]

\* C20: every placemark is styled once, when it is opened, from the value of
\* its group: its name and its 'value' metadata are the string of the value,
\* its line colour and width are LINE_COLOR and LINE_WIDTH, its fill colour is
\* the ABGR colour of getAlphaAsInteger() and getColorForValue(value); the
\* later records of the run only append their polygons to it, in stream
\* order, up to the record that opens the next placemark.
C20_StyledOnceAtOpening ==
    \A k \in Tagged(document, "Placemark") :
        /\ Len(document[k].polygons) >= 1
        /\ StyledFromOpeningRecord(document[k])
        /\ \A later \in Tagged(document, "Placemark") :
              later > k =>
                 document[k].polygons[Len(document[k].polygons)] < document[later].polygons[1]

C20_Witness ==
    /\ variant = "grid"
    /\ pc = "done"
    /\ Len(colorRamp) > 1
    /\ minValue < maxValue
    /\ Cardinality(Tagged(document, "Placemark")) = 2
    /\ document[1].polygons = <<1, 2>>
    /\ document[2].polygons = <<3>>
    /\ document[1].polyColor # document[2].polyColor
    /\ document[1].polyColor[2] # document[1].polyColor[4]

-----------------------------------------------------------------------------
(* Further claims about the conversions, checked under Spec *)

\* the data entries of the placemarks of a document
DataEntries(doc) ==
    UNION {{doc[k].data[d] : d \in 1..Len(doc[k].data)} : k \in Tagged(doc, "Placemark")}

\* C21 (as stated): in the grid variant the document holds, for every record
\* whose polygon was appended to a placemark, the row and the column of that
\* record itself, not only those of the record that opened the placemark.
C21_RowColumnPerFragment ==
    variant = "grid" =>
        \A k \in Tagged(document, "Placemark") :
            \A p \in 1..Len(document[k].polygons) :
                LET row == stream[document[k].polygons[p]]
                IN  /\ <<"i", Str(row.x)>> \in DataEntries(document)
                    /\ <<"j", Str(row.y)>> \in DataEntries(document)

\* the statements that stream cells or clusters or render images
StreamingOps == {"cells", "clusters", "png"}

\* C22: in every conversion the statements reach the store in this order: one
\* update of the no-data value per requested raster id, each id once and in
\* input order, then one statistics query over all requested ids, then the
\* cell, cluster or PNG queries; a returned conversion has issued all three.
C22_StoreCallOrder ==
    LET ids == IF IsAnimation(variant)
               THEN [k \in 1..Len(timeStampedRasters) |-> timeStampedRasters[k].rasterId[1]]
               ELSE <<rasterId>>
        n == Len(ids)
    IN  /\ storeCalls # <<>> =>
              /\ Len(storeCalls) >= n + 1
              /\ \A k \in 1..n :
                    storeCalls[k] = [op |-> "update", ids |-> <<ids[k]>>,
                                     noData |-> noDataValue]
              /\ storeCalls[n + 1].op = "stats"
              /\ storeCalls[n + 1].ids = ids
              /\ \A k \in (n + 2)..Len(storeCalls) :
                    storeCalls[k].op \notin {"update", "stats"}
        /\ pc = "done" =>
              \E k \in (n + 2)..Len(storeCalls) : storeCalls[k].op \in StreamingOps

C22_Witness ==
    /\ pc = "done"
    /\ variant = "gridAnim"
    /\ Len(timeStampedRasters) = 2
    /\ Len(storeCalls) = 5
    /\ storeCalls[1].ids # storeCalls[2].ids
    /\ storeCalls[4].op = "cells"

-----------------------------------------------------------------------------
(* Further claims about generateCustomColorRamp, checked under GenSpec *)

\* the pairs of positions of a ramp that hold the same colour
Duplicates(ramp) ==
    {pair \in (1..Len(ramp)) \X (1..Len(ramp)) :
        pair[1] < pair[2] /\ ramp[pair[1]] = ramp[pair[2]]}

-----------------------------------------------------------------------------
(* Claim about the ramp of a converter, checked under GenSpec *)

\* C24 (as stated): a converter that is given no ramp uses the built-in hue
\* ramp: after RasterConverter(session) without a ramp, and after setColorRamp()
\* without a ramp on an existing converter, the ramp of the converter is
\* generateDefaultColorRamp(COLOR_RAMP_HUE) and the call has raised no error.
C24_NoRampMeansHue ==
    (rendered.method \in {"RasterConverter", "setColorRamp"}
        /\ IsNone(rendered.values[1])) =>
        /\ error = "none"
        /\ pc # "failed"
        /\ colorRamp = hue

-----------------------------------------------------------------------------
(* Further claims about the row loop, checked under Spec *)

\* the variants that assemble placemarks from a stream of records
RowVariants == {"grid", "clusters", "gridAnim"}

\* the positions of the records of the stream that have a value
PresentPositions == {p \in 1..Len(stream) : ~IsNone(stream[p].val)}

\* the placemarks that hold the polygon of the record at position p
HoldersOf(p) ==
    {k \in Tagged(document, "Placemark") : InSeq(p, document[k].polygons)}

RECURSIVE SumOfLengths(_, _)
\* the number of polygons of the first k elements of the placemarks listed
SumOfLengths(placemarks, k) ==
    IF k = 0 THEN 0
    ELSE SumOfLengths(placemarks, k - 1) + Len(placemarks[k].polygons)

\* the placemarks of the document, in document order
PlacemarksOf(doc) == SelectSeq(doc, LAMBDA element : element.tag = "Placemark")

\* C25 (as stated): when the stream is exhausted, every record that has a
\* value, 0 and the negative values included, has exactly one polygon in
\* exactly one placemark, the placemarks hold as many polygons as there are
\* records with a value, and every such value is in uniqueValues.
C25_GeometryConservation ==
    (variant \in {"grid", "clusters"} /\ pc \in {"legend", "done"}) =>
        /\ \A p \in PresentPositions : Cardinality(HoldersOf(p)) = 1
        /\ SumOfLengths(PlacemarksOf(document), Len(PlacemarksOf(document)))
              = Cardinality(PresentPositions)
        /\ \A p \in PresentPositions : InSeq(stream[p].val[1], uniqueValues)

\* the first position of the stream whose record has a value, or 0
FirstPresent ==
    IF PresentPositions = {} THEN 0
    ELSE CHOOSE p \in PresentPositions : \A q \in PresentPositions : p <= q

\* C26 (as stated): the first record that has a value opens a placemark
\* whatever the value is, no polygon is appended while no placemark is open,
\* and the row loop goes through every stream without failing.
C26_FirstRecordOpens ==
    (variant \in {"grid", "clusters"} /\ stream # <<>>) =>
        /\ pc # "failed"
        /\ error = "none"
        /\ FirstPresent # 0 =>
              \E k \in Tagged(document, "Placemark") :
                 document[k].polygons[1] = FirstPresent

-----------------------------------------------------------------------------
(* Claim about the resolved range, checked under RangeSpec *)

\* C27 (as stated): whichever minimum and maximum the rows of the statistics
\* query lack, getMinMaxOfRasters returns a range with minValue <= maxValue,
\* so that the slope mapColorRampToValues computes from it is never negative.
C27_RangeIsOrdered ==
    pc = "ranged" =>
        /\ minValue <= maxValue
        /\ LET m == mapColorRampToValues(<<Red, Blue>>, minValue, maxValue, AlphaScale)
           IN  m.err = "none" => m.slope[1] >= 0

-----------------------------------------------------------------------------
(* Claim about the no-data entry of the embedded legend, checked under Spec *)

\* C28 (as stated): the no-data entry of every legend of a returned document
\* has the noDataValue of the conversion call as its quantity, in the
\* continuous and in the discrete legend.
C28_LegendNoDataIsCallNoData ==
    pc = "done" =>
        \A k \in Tagged(document, "ColorMap") :
            \A e \in NoDataEntries(document[k].entries) :
                document[k].entries[e].quantity = RatInt(noDataValue)

-----------------------------------------------------------------------------
(* Claim about the grid animation, checked under Spec *)

\* the rasters the polygons of a placemark came from
RastersOf(placemark) ==
    {stream[placemark.polygons[p]].raster : p \in 1..Len(placemark.polygons)}

\* C29 (as stated): in getAsKmlGridAnimation the grouping starts afresh with
\* every timestamped raster: no placemark holds polygons of two rasters, the
\* time window and the 't' metadata of every placemark are those of the raster
\* its polygons came from, and uniqueValues keeps the values of all rasters.
C29_GroupsStayInTheirRaster ==
    variant = "gridAnim" =>
        \A k \in Tagged(document, "Placemark") :
            /\ Cardinality(RastersOf(document[k])) = 1
            /\ \A r \in RastersOf(document[k]) :
                  Len(timeStampedRasters) >= 2 =>
                     LET t == timeStampedRasters[r].dateTime[1]
                         D == timeStampedRasters[2].dateTime[1]
                                 - timeStampedRasters[1].dateTime[1]
                     IN  /\ document[k].timeSpan = <<t - D, t>>
                         /\ <<"t", t>> \in DataEntries(<<document[k]>>)
            /\ InSeq(document[k].name[2], uniqueValues)

-----------------------------------------------------------------------------
(* Claim about the channels of an interpolated ramp, checked under GenSpec *)

Between(x, a, b) == (a <= x /\ x <= b) \/ (b <= x /\ x <= a)

\* the colours of the interpolation points of the segment from colors[index]
PointColors(colors, index, points) ==
    {InterpolateColor(colors[index], colors[index + 1], point, points) :
        point \in 1..(points - 1)}

\* C30: for anchors with channels in 0..255 and interpolatedPoints >= 1, every
\* channel of every colour of the returned ramp lies in 0..255, every colour
\* of the ramp is an anchor or the colour of a point of a segment, and every
\* channel of a point of a segment lies between the channels of the two
\* anchors of the segment.
C30_ChannelsStayInRange ==
    (gen.called /\ gen.err = "none" /\ gen.points >= 1) =>
        /\ \A k \in 1..Len(gen.ramp) :
              /\ \A channel \in 1..3 : gen.ramp[k][channel] \in 0..MAX_HEX_DECIMAL
              /\ \/ InSeq(gen.ramp[k], gen.colors)
                 \/ \E index \in 1..(Len(gen.colors) - 1) :
                       gen.ramp[k] \in PointColors(gen.colors, index, gen.points)
        /\ \A index \in 1..(Len(gen.colors) - 1) :
              \A color \in PointColors(gen.colors, index, gen.points) :
                 /\ InSeq(color, gen.ramp)
                 /\ \A channel \in 1..3 :
                       Between(color[channel], gen.colors[index][channel],
                               gen.colors[index + 1][channel])

C30_Witness ==
    /\ gen.called /\ gen.err = "none"
    /\ gen.colors = <<Red, Blue, Maroon>>
    /\ gen.points = 3
    /\ gen.ramp = <<Red, <<170, 0, 85>>, <<85, 0, 170>>, Blue,
                    <<40, 0, 170>>, <<81, 0, 85>>, Maroon>>

====
